---- MODULE Spec2Model ----
(***************************************************************************)
(* A model of the legal knowledge service of gdpr-education-audit:         *)
(*   LegalKnowledgeService    (cache, document watch, re-ingestion)        *)
(*   LegalKnowledgeVectorizer (chunking, query building, vector store)     *)
(* JavaScript strings are sequences of one-character strings; a JavaScript *)
(* object is the sequence of its properties in insertion order.            *)
(***************************************************************************)
EXTENDS Integers, Sequences, FiniteSets, TLC

VARIABLES
    chText,     \* chunker run: the document content handed to chunkDocument
    chOpts,     \* chunker run: { chunkSize, overlap, preserveLegalCitations }
    chResult,   \* chunker run: what chunkDocument produced
    chpc,       \* chunker run: "call" | "returned" | "diverges"
    qType,      \* query run: requirementType
    qCtx,       \* query run: context
    qCtx2,      \* query run: a second context with the same properties
    qOut,       \* query run: what buildQuery produced
    qKey,       \* query run: cache key of (qType, qCtx)
    qKey2,      \* query run: cache key of (qType, qCtx2)
    qpc,        \* query run: "call" | "built" | "keyed"
    drive,      \* Google Drive folder: document id -> [version, modifiedTime]
    store,      \* Chroma collection: chunk id -> [document, metadata]
    cache,      \* Redis: key -> [text, expiry, stamp], live entries only
    now,        \* the clock
    stamps,     \* number of answers cached so far (names each cached answer)
    calls,      \* number of calls started so far
    task,       \* the running calls: process -> its operation, place and locals
    evFn,       \* function run: the function applied ("none" when there is none)
    evIn,       \* function run: its arguments
    evOut,      \* function run: what it returned
    evpc        \* function run: "idle" | "call" | "done"

chunkVars == <<chText, chOpts, chResult, chpc>>
queryVars == <<qType, qCtx, qCtx2, qOut, qKey, qKey2, qpc>>
serviceVars == <<drive, store, cache, now, stamps, calls, task>>
evalVars == <<evFn, evIn, evOut, evpc>>
vars == <<chunkVars, queryVars, serviceVars, evalVars>>

(***************************************************************************)
(* Bounds of the model                                                     *)
(***************************************************************************)
MaxLen == 4          \* longest enumerated document text
MaxChunkSize == 3    \* largest enumerated chunkSize (overlap ranges over 0..MaxChunkSize)
MaxFields == 3       \* most properties of an enumerated context
MaxVersion == 2      \* versions a document of the folder goes through
MaxCalls == 2        \* calls of the service made in one behaviour
MaxNow == 86400      \* the clock stops here
MaxHits == 2         \* most hits of an enumerated hit set
MaxViolations == 5   \* longest violation list scored
MaxPermuted == 3     \* longest violation list whose permutations are enumerated
MaxCookies == 3      \* longest cookie list
MaxFined == 3        \* longest violation list handed to calculatePotentialFine
MaxWords == 5        \* most words of an enumerated text with legal references

(***************************************************************************)
(* Characters and strings                                                  *)
(***************************************************************************)
Min(a, b) == IF a < b THEN a ELSE b
Max(a, b) == IF a > b THEN a ELSE b

\* The two characters U+0E22 U+0E07 that the third section pattern holds.
SectionSign == <<"U0E22", "U0E07">>

UpperLetters == <<"A","B","C","D","E","F","G","H","I","J","K","L","M",
                  "N","O","P","Q","R","S","T","U","V","W","X","Y","Z">>
LowerLetters == <<"a","b","c","d","e","f","g","h","i","j","k","l","m",
                  "n","o","p","q","r","s","t","u","v","w","x","y","z">>

IsUpper(c) == \E i \in 1..26 : UpperLetters[i] = c
toLowerCase(c) ==
    IF IsUpper(c) THEN LowerLetters[CHOOSE i \in 1..26 : UpperLetters[i] = c] ELSE c
\* \s and \d of the regular expressions
IsSpace(c) == c \in {" ", "\n", "\t", "\r"}
IsDigit(c) == c \in {"0","1","2","3","4","5","6","7","8","9"}

\* String.prototype.trim().length > 0
TrimNonEmpty(s) == \E i \in 1..Len(s) : ~IsSpace(s[i])

\* String.prototype.slice(start, end), 0-based, negative indexes from the end
slice(text, start, end) ==
    LET len  == Len(text)
        from == IF start < 0 THEN Max(len + start, 0) ELSE Min(start, len)
        to   == IF end < 0 THEN Max(len + end, 0) ELSE Min(end, len)
    IN  IF from >= to THEN <<>> ELSE SubSeq(text, from + 1, to)

\* First index >= i of s that holds no whitespace (Len(s)+1 when there is none)
RECURSIVE SkipSpaces(_, _)
SkipSpaces(s, i) ==
    IF i <= Len(s) /\ IsSpace(s[i]) THEN SkipSpaces(s, i + 1) ELSE i
RECURSIVE SkipDigits(_, _)
SkipDigits(s, i) ==
    IF i <= Len(s) /\ IsDigit(s[i]) THEN SkipDigits(s, i + 1) ELSE i
DigitAt(s, i) == i <= Len(s) /\ IsDigit(s[i])
\* the word w at index i of s, letter case ignored (flag i)
WordAt(s, i, w) ==
    /\ i + Len(w) - 1 <= Len(s)
    /\ \A k \in 1..Len(w) : toLowerCase(s[i + k - 1]) = toLowerCase(w[k])

(***************************************************************************)
(* LegalKnowledgeVectorizer.splitByLegalSections                           *)
(***************************************************************************)
\* /\n(?=Article\s+\d+)/gi and /\n(?=Section\s+\d+)/gi at index p of s
LabelledCut(s, p, w) ==
    /\ s[p] = "\n"
    /\ WordAt(s, p + 1, w)
    /\ p + 1 + Len(w) <= Len(s)
    /\ IsSpace(s[p + 1 + Len(w)])
    /\ DigitAt(s, SkipSpaces(s, p + 1 + Len(w)))
\* /\n(?=<U+0E22 U+0E07>\s*\d+)/gi
SignCut(s, p) ==
    /\ s[p] = "\n"
    /\ p + 2 <= Len(s)
    /\ s[p + 1] = SectionSign[1]
    /\ s[p + 2] = SectionSign[2]
    /\ DigitAt(s, SkipSpaces(s, p + 3))
\* /\n(?=\d+\.\s+[A-Z])/g
NumberedCut(s, p) ==
    /\ s[p] = "\n"
    /\ DigitAt(s, p + 1)
    /\ LET j == SkipDigits(s, p + 1)
       IN  /\ j + 1 <= Len(s)
           /\ s[j] = "."
           /\ IsSpace(s[j + 1])
           /\ LET k == SkipSpaces(s, j + 1) IN k <= Len(s) /\ IsUpper(s[k])

\* the match positions of pattern number k in s
Cuts(k, s) ==
    {p \in 1..Len(s) :
        CASE k = 1 -> LabelledCut(s, p, <<"A","r","t","i","c","l","e">>)
          [] k = 2 -> LabelledCut(s, p, <<"S","e","c","t","i","o","n">>)
          [] k = 3 -> SignCut(s, p)
          [] OTHER -> NumberedCut(s, p)}

\* String.prototype.split(pattern): the pieces between the matches
RECURSIVE SplitPieces(_, _, _, _)
SplitPieces(s, cuts, start, p) ==
    IF p > Len(s) THEN <<SubSeq(s, start, Len(s))>>
    ELSE IF p \in cuts
         THEN <<SubSeq(s, start, p - 1)>> \o SplitPieces(s, cuts, p + 1, p + 1)
         ELSE SplitPieces(s, cuts, start, p + 1)
split(s, k) == SplitPieces(s, Cuts(k, s), 1, 1)

\* one round of the loop over patterns: every section split, blank pieces dropped
RECURSIVE SplitAll(_, _)
SplitAll(sections, k) ==
    IF sections = <<>> THEN <<>>
    ELSE SelectSeq(split(Head(sections), k), TrimNonEmpty) \o SplitAll(Tail(sections), k)

splitByLegalSections(content) ==
    SplitAll(SplitAll(SplitAll(SplitAll(<<content>>, 1), 2), 3), 4)

(***************************************************************************)
(* LegalKnowledgeVectorizer.splitWithOverlap                               *)
(* The loop advances start by chunkSize - overlap.  With a step >= 1 it    *)
(* leaves after at most Len(text) rounds; a loop still running after       *)
(* Len(text) rounds has a step <= 0 and never leaves: "diverges".          *)
(***************************************************************************)
RECURSIVE SplitLoop(_, _, _, _, _, _)
SplitLoop(text, chunkSize, overlap, start, chunks, rounds) ==
    IF ~(start < Len(text)) THEN [status |-> "returned", chunks |-> chunks]
    ELSE IF rounds >= Len(text) THEN [status |-> "diverges", chunks |-> chunks]
    ELSE LET end == Min(start + chunkSize, Len(text))
         IN  SplitLoop(text, chunkSize, overlap, start + chunkSize - overlap,
                       Append(chunks, slice(text, start, end)), rounds + 1)

splitWithOverlap(text, chunkSize, overlap) ==
    SplitLoop(text, chunkSize, overlap, 0, <<>>, 0)

(***************************************************************************)
(* LegalKnowledgeVectorizer.chunkDocument                                  *)
(***************************************************************************)
RECURSIVE ChunkSections(_, _, _)
ChunkSections(sections, options, chunks) ==
    IF sections = <<>> THEN [status |-> "returned", chunks |-> chunks]
    ELSE LET section == Head(sections)
         IN  IF Len(section) <= options.chunkSize
             THEN ChunkSections(Tail(sections), options, Append(chunks, section))
             ELSE LET sub == splitWithOverlap(section, options.chunkSize, options.overlap)
                  IN  IF sub.status = "diverges"
                      THEN [status |-> "diverges", chunks |-> chunks \o sub.chunks]
                      ELSE ChunkSections(Tail(sections), options, chunks \o sub.chunks)

chunkDocument(doc, options) ==
    IF options.preserveLegalCitations
    THEN ChunkSections(splitByLegalSections(doc.content), options, <<>>)
    ELSE splitWithOverlap(doc.content, options.chunkSize, options.overlap)

(***************************************************************************)
(* JavaScript values: a value is [t, v], t its type and v its content as   *)
(* a sequence of strings; an object is the sequence of its properties      *)
(* [k, v] in insertion order.                                              *)
(***************************************************************************)
Str(s) == [t |-> "string", v |-> <<s>>]
Arr(a) == [t |-> "array", v |-> a]
Bool(b) == [t |-> "boolean", v |-> <<IF b THEN "true" ELSE "false">>]
Undefined == [t |-> "undefined", v |-> <<>>]
Prop(k, v) == [k |-> k, v |-> v]

Keys(obj) == {obj[i].k : i \in DOMAIN obj}
\* obj.k
Get(obj, k) ==
    IF k \in Keys(obj) THEN obj[CHOOSE i \in DOMAIN obj : obj[i].k = k].v ELSE Undefined
\* ToBoolean
Truthy(x) ==
    CASE x.t = "undefined" -> FALSE
      [] x.t = "boolean" -> x.v = <<"true">>
      [] x.t = "string" -> x.v # <<"">>
      [] OTHER -> TRUE
\* Array.prototype.join(sep), as the pieces of the resulting string
RECURSIVE JoinPieces(_, _)
JoinPieces(a, sep) ==
    IF a = <<>> THEN <<>>
    ELSE IF Len(a) = 1 THEN a
    ELSE <<Head(a), sep>> \o JoinPieces(Tail(a), sep)
\* `${x}` in a template literal: ToString(x), as the pieces of the string
Interpolate(x) ==
    CASE x.t = "undefined" -> <<"undefined">>
      [] x.t = "array" -> JoinPieces(x.v, ",")
      [] OTHER -> x.v
\* x.join(sep) throws a TypeError unless x is an array
JoinThrows(x) == x.t # "array"

\* JSON.stringify(obj): the properties in insertion order, those whose value is
\* undefined left out.  Two texts are equal exactly when these sequences are.
JSONstringify(obj) == SelectSeq(obj, LAMBDA p : p.v.t # "undefined")

(***************************************************************************)
(* LegalKnowledgeService.getLegalRequirement, the cache key (line 78)      *)
(***************************************************************************)
cacheKey(requirementType, context) ==
    [prefix |-> "legal", type |-> requirementType, ctx |-> JSONstringify(context)]

(***************************************************************************)
(* LegalKnowledgeVectorizer.buildQuery                                     *)
(* The object literal queryTemplates evaluates all six templates on every  *)
(* call, whatever requirementType is.                                      *)
(***************************************************************************)
TemplateTypes ==
    {"biometric_detection_patterns", "violation_severity", "fine_calculation_matrix",
     "biometric_legal_framework", "enforcement_precedents", "report_template"}

queryTemplates(context) ==
    [biometric_detection_patterns |->
        <<"What biometric data processing systems should be detected in educational platforms according to GDPR and AI Act? Focus on ">>
        \o Interpolate(Get(context, "platform_type")) \o <<" platforms in ">>
        \o Interpolate(Get(context, "jurisdiction")) \o <<".">>,
     violation_severity |->
        <<"What is the severity level and potential fine for ">>
        \o Interpolate(Get(context, "violation_type")) \o <<" violations">>
        \o (IF Truthy(Get(context, "affects_minors")) THEN <<" affecting minors">> ELSE <<"">>)
        \o <<" under Italian GDPR enforcement?">>,
     fine_calculation_matrix |->
        <<"How are GDPR fines calculated for ">>
        \o JoinPieces(Get(context, "violations").v, ", ") \o <<" violations in ">>
        \o Interpolate(Get(context, "jurisdiction"))
        \o <<"? Include base amounts and multipliers.">>,
     biometric_legal_framework |->
        <<"What are the legal requirements for processing ">>
        \o JoinPieces(Get(context, "data_types").v, ", ") \o <<" biometric data for ">>
        \o JoinPieces(Get(context, "processing_purposes").v, ", ")
        \o <<" purposes in educational settings?">>,
     enforcement_precedents |->
        <<"Find enforcement cases similar to ">>
        \o JoinPieces(Get(context, "similar_violations").v, ", ")
        \o <<" in Italian educational institutions.">>,
     report_template |->
        <<"Provide a ">> \o Interpolate(Get(context, "report_type"))
        \o <<" report template in ">> \o Interpolate(Get(context, "language"))
        \o <<" for GDPR compliance violations.">>]

\* [threw, text, json]: threw when building queryTemplates raised a TypeError;
\* otherwise text holds the pieces of the query and json the serialized context
\* the generic template embeds (empty for a template of the table).
buildQuery(requirementType, context) ==
    IF \/ JoinThrows(Get(context, "violations"))
       \/ JoinThrows(Get(context, "data_types"))
       \/ JoinThrows(Get(context, "processing_purposes"))
       \/ JoinThrows(Get(context, "similar_violations"))
    THEN [threw |-> TRUE, text |-> <<>>, json |-> <<>>]
    ELSE IF requirementType \in TemplateTypes
         THEN [threw |-> FALSE, text |-> queryTemplates(context)[requirementType],
               json |-> <<>>]
         ELSE [threw |-> FALSE,
               text |-> <<"Legal requirements for ", requirementType, " in context: ">>,
               json |-> JSONstringify(context)]

(***************************************************************************)
(* Inputs of the chunker runs and of the query runs                        *)
(***************************************************************************)
SeqsUpTo(S, n) == UNION {[1..k -> S] : k \in 0..n}

ChunkAlphabet == {"\n", "U0E22", "U0E07", "1"}
SampleTexts ==
    {<<"G","D","P","R","\n","A","r","t","i","c","l","e"," ","6"," ","x">>,
     <<"a","\n","s","e","c","t","i","o","n"," "," ","2","\n","\n","1","."," ","S","c","o","p","e">>,
     <<" ","\n","1","0","."," ","A","\n"," ","1",".","b">>}
Texts == SeqsUpTo(ChunkAlphabet, MaxLen) \cup SampleTexts
ChunkOptions ==
    [chunkSize : 1..MaxChunkSize, overlap : 0..MaxChunkSize,
     preserveLegalCitations : BOOLEAN]

EnumFields ==
    {"platform_type", "jurisdiction", "violations", "data_types",
     "processing_purposes", "similar_violations"}
FieldValue(f) ==
    CASE f = "platform_type" -> Str("education")
      [] f = "jurisdiction" -> Str("Italy")
      [] f = "violations" -> Arr(<<"cookie_consent_violation", "minor_data_processing">>)
      [] f = "data_types" -> Arr(<<"face">>)
      [] f = "processing_purposes" -> Arr(<<"proctoring">>)
      [] OTHER -> Arr(<<"unauthorized_biometric_processing">>)
\* the objects with at most n of the enumerated properties, in every insertion order
ObjectsUpTo(n) ==
    {[i \in 1..Len(ks) |-> Prop(ks[i], FieldValue(ks[i]))] :
        ks \in {s \in SeqsUpTo(EnumFields, n) :
                    \A i, j \in 1..Len(s) : i # j => s[i] # s[j]}}

\* the contexts ViolationDetectionEngine passes (part_002 lines 26-29, 418, 439-442)
ScanContext == <<Prop("platform_type", Str("education")), Prop("jurisdiction", Str("Italy"))>>
SeverityContext(b) ==
    <<Prop("violation_type", Str("cookie_consent_violation")), Prop("affects_minors", Bool(b))>>
ExamContext == <<Prop("context", Str("online_exams"))>>
\* a context that holds every array the templates join
FullContext ==
    <<Prop("violations", Arr(<<"cookie_consent_violation">>)),
      Prop("data_types", Arr(<<"face">>)),
      Prop("processing_purposes", Arr(<<"proctoring">>)),
      Prop("similar_violations", Arr(<<>>)),
      Prop("category", Undefined)>>
EngineContexts == {ScanContext, SeverityContext(TRUE), SeverityContext(FALSE), ExamContext}
Contexts == ObjectsUpTo(MaxFields) \cup EngineContexts \cup {FullContext}
RequirementTypes == TemplateTypes \cup {"minor_protection_requirements"}

\* the objects that hold the properties of obj in another insertion order
Reorderings(obj) ==
    {[i \in 1..Len(obj) |-> obj[f[i]]] :
        f \in {g \in [1..Len(obj) -> 1..Len(obj)] :
                  \A i, j \in 1..Len(obj) : i # j => g[i] # g[j]}}
SameProperties(a, b) == {a[i] : i \in DOMAIN a} = {b[i] : i \in DOMAIN b}

(***************************************************************************)
(* The documents of the legal knowledge folder (Google Drive)              *)
(***************************************************************************)
DocSeq == <<"d1">>
DocIds == {DocSeq[i] : i \in DOMAIN DocSeq}
VersionDigits == <<"1", "2", "3", "4", "5", "6", "7", "8", "9">>
\* the exported text of version v: two sections for an odd version, one for an even one
ContentOf(v) ==
    IF v % 2 = 1
    THEN <<"A", "r", "t", ".", VersionDigits[v], "\n", "U0E22", "U0E07", " ", "1">>
    ELSE <<"A", "r", "t", ".", VersionDigits[v]>>

NoDoc == [id |-> "none", name |-> "none", content |-> <<>>, modifiedTime |-> 0,
          folder |-> "none"]

\* googleDrive.files.get + files.export + getFolderName, as getDocumentContent
\* returns them (lines 166-172)
getDocumentContent(drv, docId) ==
    [id |-> docId, name |-> docId, content |-> ContentOf(drv[docId].version),
     modifiedTime |-> drv[docId].modifiedTime, folder |-> "Legal"]

\* googleDrive.files.list(..., orderBy: 'modifiedTime desc') (lines 108-112)
RECURSIVE FilesByModifiedTimeDesc(_, _)
FilesByModifiedTimeDesc(drv, ids) ==
    IF ids = {} THEN <<>>
    ELSE LET first == CHOOSE i \in DOMAIN DocSeq :
                        /\ DocSeq[i] \in ids
                        /\ \A j \in DOMAIN DocSeq : DocSeq[j] \in ids =>
                              \/ drv[DocSeq[j]].modifiedTime < drv[DocSeq[i]].modifiedTime
                              \/ (drv[DocSeq[j]].modifiedTime = drv[DocSeq[i]].modifiedTime
                                  /\ i <= j)
         IN  <<[id |-> DocSeq[first], modifiedTime |-> drv[DocSeq[first]].modifiedTime]>>
             \o FilesByModifiedTimeDesc(drv, ids \ {DocSeq[first]})
filesList(drv) == FilesByModifiedTimeDesc(drv, DocIds)

(***************************************************************************)
(* The chunks of a document as processDocuments prepares them              *)
(***************************************************************************)
\* processDocuments lines 291-295
ProcessOptions == [chunkSize |-> 1000, overlap |-> 200, preserveLegalCitations |-> TRUE]
\* `${doc.id}_chunk_${index}` (line 301)
chunkId(docId, index) == [doc |-> docId, idx |-> index]
chunkIds(doc, chunks) == [i \in 1..Len(chunks) |-> chunkId(doc.id, i - 1)]
\* lines 302-309
chunkMetadatas(doc, chunks) ==
    [i \in 1..Len(chunks) |->
        [source |-> doc.name, docId |-> doc.id, chunkIndex |-> i - 1,
         lastUpdated |-> doc.modifiedTime, category |-> doc.folder]]
MetadataKeys == {"source", "docId", "chunkIndex", "lastUpdated", "category", "legalReferences"}

(***************************************************************************)
(* The Chroma collection                                                   *)
(***************************************************************************)
EmptyMap == [x \in {} |-> 0]
Range(f) == {f[x] : x \in DOMAIN f}

\* collection.get answering with no id
collectionGetNone(st, docId) == {}
\* collection.get({ where: { docId } }).ids (lines 582-584)
collectionGet(st, docId) == {id \in DOMAIN st : st[id].metadata.docId = docId}
\* collection.delete({ ids }) (lines 587-589)
collectionDelete(st, ids) == [id \in DOMAIN st \ ids |-> st[id]]
\* collection.add({ ids, embeddings, documents, metadatas }) (lines 312-317);
\* a record whose id the collection holds already is left as it is
collectionAdd(st, ids, documents, metadatas) ==
    [id \in DOMAIN st \cup Range(ids) |->
        IF id \in DOMAIN st THEN st[id]
        ELSE LET i == CHOOSE j \in DOMAIN ids : ids[j] = id
             IN  [document |-> documents[i], metadata |-> metadatas[i]]]

\* buildFilter (lines 488-503)
buildFilter(context) ==
    [category |-> IF Truthy(Get(context, "category"))
                  THEN Get(context, "category") ELSE Undefined,
     jurisdiction |-> IF Truthy(Get(context, "jurisdiction"))
                      THEN Get(context, "jurisdiction") ELSE Undefined]
\* the where clause of collection.query: category equal, and the jurisdiction
\* of the metadata the requested one or 'EU'; a key the metadata lacks matches
\* nothing
Matches(metadata, filter) ==
    /\ filter.category.t = "undefined" \/ Str(metadata.category) = filter.category
    /\ filter.jurisdiction.t = "undefined" \/ "jurisdiction" \in MetadataKeys

\* collection.query (lines 511-515): the ids of the nResults nearest chunks
\* among those the filter matches, the nearest first.  The ranking is the
\* store's; the model ranks by document and chunk index.
DocIndex(d) == CHOOSE i \in DOMAIN DocSeq : DocSeq[i] = d
RankedBefore(a, b) ==
    \/ DocIndex(a.doc) < DocIndex(b.doc)
    \/ (a.doc = b.doc /\ a.idx <= b.idx)
RECURSIVE RankedIds(_)
RankedIds(ids) ==
    IF ids = {} THEN <<>>
    ELSE LET first == CHOOSE a \in ids : \A b \in ids : RankedBefore(a, b)
         IN  <<first>> \o RankedIds(ids \ {first})
collectionQuery(st, nResults, filter) ==
    LET all == RankedIds({id \in DOMAIN st : Matches(st[id].metadata, filter)})
    IN  SubSeq(all, 1, Min(nResults, Len(all)))

\* searchSimilar (lines 505-528): the hits as formatted in lines 518-523; the
\* store reports the distance of each hit, in hundredths
Num(n) == [t |-> "number", v |-> <<n>>]
Null == [t |-> "null", v |-> <<>>]
searchSimilar(st, topK, filter) ==
    LET ids == collectionQuery(st, topK, filter)
    IN  [i \in 1..Len(ids) |->
            [id |-> ids[i], content |-> st[ids[i]].document,
             metadata |-> st[ids[i]].metadata, score |-> Num(25 * i)]]

(***************************************************************************)
(* synthesizeResponse and calculateConfidence                              *)
(***************************************************************************)
\* calculateConfidence (lines 569-577), as the fraction num/den; the scores are
\* in hundredths
RECURSIVE SumScores(_)
SumScores(results) ==
    IF results = <<>> THEN 0
    ELSE (IF Head(results).score.t = "number" THEN Head(results).score.v[1] ELSE 0)
         + SumScores(Tail(results))
\* calculateConfidence without the Math.max(0, ...) of line 576
calculateConfidenceNoFloor(results) ==
    IF Len(results) = 0 THEN [num |-> 0, den |-> 1]
    ELSE [num |-> 100 * Len(results) - SumScores(results), den |-> 100 * Len(results)]
calculateConfidence(results) ==
    IF Len(results) = 0 THEN [num |-> 0, den |-> 1]
    ELSE [num |-> Max(0, 100 * Len(results) - SumScores(results)),
          den |-> 100 * Len(results)]

\* combineContents (lines 564-567): the contents joined by '\n\n---\n\n'
combineContents(contents) == JoinPieces(contents, <<"\n", "\n", "-", "-", "-", "\n", "\n">>)

\* synthesizeResponse (lines 530-562).  new Set(...) holds one fresh object per
\* hit, so sources keeps one entry per hit.
synthesizeResponse(results, requirementType) ==
    [requirement |-> requirementType,
     synthesizedContent |-> combineContents([i \in 1..Len(results) |-> results[i].content]),
     sources |-> [i \in 1..Len(results) |->
                    <<Prop("documentId", Str(results[i].metadata.docId)),
                      Prop("documentName", Str(results[i].metadata.source)),
                      Prop("relevance", results[i].score)>>],
     confidence |-> calculateConfidence(results)]

NoAnswer == [requirement |-> "none", synthesizedContent |-> <<>>, sources |-> <<>>,
             confidence |-> [num |-> 0, den |-> 1]]

(***************************************************************************)
(* The Redis cache.  A stored text is [kind, json, iso]: the JSON text of  *)
(* an answer, modelled by the value it parses to, or an ISO date.          *)
(***************************************************************************)
\* JSON.stringify(requirement) (line 95): a property whose value is undefined
\* is left out of the text
JSONstringifyAnswer(a) ==
    [kind |-> "json",
     json |-> [requirement |-> a.requirement,
               synthesizedContent |-> a.synthesizedContent,
               sources |-> [i \in 1..Len(a.sources) |-> JSONstringify(a.sources[i])],
               confidence |-> a.confidence],
     iso |-> 0]
\* JSON.parse(cached) (line 85)
JSONparse(text) == text.json
\* new Date().toISOString() (line 144)
toISOString(t) == [kind |-> "iso", json |-> NoAnswer, iso |-> t]
\* new Date(lastSync) (line 117)
DateOf(text) == text.iso

\* seconds, line 95
CacheTtl == 86400
\* `file:lastsync:${file.id}` (lines 115, 144)
lastSyncKey(docId) == [prefix |-> "file:lastsync", type |-> docId, ctx |-> <<>>]
NoKey == [prefix |-> "none", type |-> "none", ctx |-> <<>>]

\* redis.keys answering with no key
redisKeysNone(c, prefix) == {}
\* redis.keys('legal:*') (lines 137-138)
redisKeys(c, prefix) == {k \in DOMAIN c : k.prefix = prefix}
\* redis.del(keys) (line 140)
redisDel(c, keys) == [k \in DOMAIN c \ keys |-> c[k]]
\* redis.setEx storing the text with no time to live left
redisSetExExpired(c, key, ttl, text, t, stamp) ==
    [k \in DOMAIN c \cup {key} |->
        IF k = key THEN [text |-> text, expiry |-> t, stamp |-> stamp] ELSE c[k]]
\* redis.setEx(key, ttl, text) (line 95); expiry 0 - 1 stands for none
redisSetEx(c, key, ttl, text, t, stamp) ==
    [k \in DOMAIN c \cup {key} |->
        IF k = key THEN [text |-> text, expiry |-> t + ttl, stamp |-> stamp] ELSE c[k]]
\* redis.set(key, text) (line 144)
redisSet(c, key, text, stamp) ==
    [k \in DOMAIN c \cup {key} |->
        IF k = key THEN [text |-> text, expiry |-> 0 - 1, stamp |-> stamp] ELSE c[k]]
\* the entries still alive at time t
Unexpired(c, t) ==
    [k \in {x \in DOMAIN c : c[x].expiry < 0 \/ t < c[x].expiry} |-> c[k]]

(***************************************************************************)
(* The calls in progress.  Each await of the code is one step.             *)
(***************************************************************************)
\* the callers: calls of one process follow each other, calls of two overlap
Procs == {"p1", "p2"}

\* the (requirementType, context) pairs the callers of the model pass
QueryInputs ==
    {<<"report_template", FullContext>>,
     <<"biometric_detection_patterns", ScanContext>>}

IdleTask ==
    [op |-> "none",          \* "update" | "poll" | "get"
     pc |-> "idle",          \* the await the call is at; "done" when it has ended
     ret |-> "none",         \* how the call ended: "ok" | "threw" | "caught"
     \* LegalKnowledgeService.updateDocument and LegalKnowledgeVectorizer.updateDocument
     docId |-> "none",
     doc |-> NoDoc,
     old |-> {},             \* oldIds.ids
     processed |-> <<>>,     \* processedDocs
     keys |-> {},
     updated |-> "none",     \* how the last updateDocument ended: "ok" | "caught"
     \* checkForUpdates
     files |-> <<>>,         \* the files the loop has still to visit, the current one first
     \* getLegalRequirement
     rtype |-> "none",
     ctx |-> <<>>,
     key |-> NoKey,
     answer |-> NoAnswer,    \* the answer returned
     hit |-> FALSE,          \* the cache answered
     queried |-> FALSE,      \* an embedding or a vector-store query was issued
     \* history
     overlapped |-> FALSE,   \* another updateDocument of the same document ran meanwhile
     sameAsOld |-> FALSE,    \* the chunks found in the collection were those of doc
     cacheFailed |-> FALSE,  \* getLegalRequirement met a failure of Redis
     seen |-> {},            \* the legal: entries in the cache when updateDocument started
     stale |-> FALSE]        \* the collection was rewritten after this call queried it

UpdatePcs == {"u_fetch", "v_get", "v_delete", "p_add", "s_keys", "s_del", "s_set"}

ServiceIdle ==
    /\ drive = [d \in DocIds |-> [version |-> 1, modifiedTime |-> 0]]
    /\ store = EmptyMap
    /\ cache = EmptyMap
    /\ now = 0
    /\ stamps = 0
    /\ calls = 0
    /\ task = [p \in Procs |-> IdleTask]

ChunkIdle ==
    /\ chText = <<>>
    /\ chOpts = [chunkSize |-> 1, overlap |-> 0, preserveLegalCitations |-> FALSE]
    /\ chResult = [status |-> "none", chunks |-> <<>>]
    /\ chpc = "idle"
EvalIdle ==
    /\ evFn = "none"
    /\ evIn = <<>>
    /\ evOut = <<>>
    /\ evpc = "idle"
QueryIdle ==
    /\ qType = "none"
    /\ qCtx = <<>>
    /\ qCtx2 = <<>>
    /\ qOut = [threw |-> FALSE, text |-> <<>>, json |-> <<>>]
    /\ qKey = cacheKey("none", <<>>)
    /\ qKey2 = cacheKey("none", <<>>)
    /\ qpc = "idle"

(***************************************************************************)
(* SpecChunk: chunkDocument applied to every document and option set       *)
(***************************************************************************)
ChunkInit ==
    /\ chText \in Texts
    /\ chOpts \in ChunkOptions
    /\ chResult = [status |-> "none", chunks |-> <<>>]
    /\ chpc = "call"
    /\ QueryIdle
    /\ ServiceIdle
    /\ EvalIdle

\* chunkDocument returns its chunks
ChunkReturn ==
    /\ chpc = "call"
    /\ chunkDocument([content |-> chText], chOpts).status = "returned"
    /\ chResult' = chunkDocument([content |-> chText], chOpts)
    /\ chpc' = "returned"
    /\ UNCHANGED <<chText, chOpts, queryVars, serviceVars, evalVars>>

\* chunkDocument enters a splitWithOverlap loop that never leaves
ChunkDiverge ==
    /\ chpc = "call"
    /\ chunkDocument([content |-> chText], chOpts).status = "diverges"
    /\ chResult' = chunkDocument([content |-> chText], chOpts)
    /\ chpc' = "diverges"
    /\ UNCHANGED <<chText, chOpts, queryVars, serviceVars, evalVars>>

ChunkNext == ChunkReturn \/ ChunkDiverge
SpecChunk == ChunkInit /\ [][ChunkNext]_vars

(***************************************************************************)
(* SpecQuery: the cache key and buildQuery applied to every requirement    *)
(* type and context                                                        *)
(***************************************************************************)
QueryInit ==
    /\ qType \in RequirementTypes
    /\ qCtx \in Contexts
    /\ qCtx2 \in Reorderings(qCtx)
    /\ qOut = [threw |-> FALSE, text |-> <<>>, json |-> <<>>]
    /\ qKey = cacheKey("none", <<>>)
    /\ qKey2 = cacheKey("none", <<>>)
    /\ qpc = "call"
    /\ ChunkIdle
    /\ ServiceIdle
    /\ EvalIdle

\* getLegalRequirement line 78, for the two contexts
ComputeKey ==
    /\ qpc = "call"
    /\ qKey' = cacheKey(qType, qCtx)
    /\ qKey2' = cacheKey(qType, qCtx2)
    /\ qpc' = "keyed"
    /\ UNCHANGED <<qType, qCtx, qCtx2, qOut, chunkVars, serviceVars, evalVars>>

\* queryLegalRequirement line 459
BuildQuery ==
    /\ qpc = "keyed"
    /\ qOut' = buildQuery(qType, qCtx)
    /\ qpc' = "built"
    /\ UNCHANGED <<qType, qCtx, qCtx2, qKey, qKey2, chunkVars, serviceVars, evalVars>>

QueryNext == ComputeKey \/ BuildQuery
SpecQuery == QueryInit /\ [][QueryNext]_vars

(***************************************************************************)
(* Spec: the service.  Processes call updateDocument, checkForUpdates and  *)
(* getLegalRequirement; documents of the folder change; the clock runs;    *)
(* every call to Drive, Chroma, OpenAI or Redis may fail.                  *)
(***************************************************************************)
Init ==
    /\ ServiceIdle
    /\ ChunkIdle
    /\ QueryIdle
    /\ EvalIdle

Others == <<chunkVars, queryVars, evalVars>>
\* a call is made by "p1", or by "p2" when "p1" is in the middle of one
CanStart(p) ==
    /\ task[p].pc \in {"idle", "done"}
    /\ calls < MaxCalls
    /\ p = "p1" \/ task["p1"].pc \notin {"idle", "done"}
\* the cached answers of c, by their stamps
LegalStamps(c) == {c[k].stamp : k \in {x \in DOMAIN c : x.prefix = "legal"}}

\* the locals of p as updateDocument(d) starts (line 126)
BeginUpdate(p, t, d) ==
    [t EXCEPT !.pc = "u_fetch", !.docId = d, !.doc = NoDoc, !.old = {},
              !.processed = <<>>, !.keys = {}, !.updated = "none", !.sameAsOld = FALSE,
              !.seen = LegalStamps(cache),
              !.overlapped = \E q \in Procs \ {p} :
                                task[q].pc \in UpdatePcs /\ task[q].docId = d]
\* the tasks as p starts updateDocument(d) with locals t
WithUpdate(p, t, d) ==
    [q \in Procs |->
        IF q = p THEN BeginUpdate(p, t, d)
        ELSE IF task[q].pc \in UpdatePcs /\ task[q].docId = d
             THEN [task[q] EXCEPT !.overlapped = TRUE]
             ELSE task[q]]

\* the locals of p as updateDocument ends with outcome how: the call ends, or
\* the loop of checkForUpdates goes on with the next file (lines 114-120)
EndUpdate(t, how) ==
    LET u == [t EXCEPT !.updated = how, !.doc = NoDoc, !.old = {}, !.keys = {}]
    IN  IF t.op = "update"
        THEN [u EXCEPT !.pc = "done", !.ret = how]
        ELSE IF Len(t.files) > 1
             THEN [u EXCEPT !.pc = "c_get", !.files = Tail(t.files)]
             ELSE [u EXCEPT !.pc = "done", !.files = <<>>, !.ret = "ok"]

\* a direct call of LegalKnowledgeService.updateDocument(d)
StartUpdate(p, d) ==
    /\ CanStart(p)
    /\ calls' = calls + 1
    /\ task' = WithUpdate(p, [IdleTask EXCEPT !.op = "update"], d)
    /\ UNCHANGED <<drive, store, cache, now, stamps, Others>>

\* line 131: getDocumentContent answers
FetchDocument(p) ==
    /\ task[p].pc = "u_fetch"
    /\ task' = [task EXCEPT ![p] = [@ EXCEPT !.pc = "v_get",
                                             !.doc = getDocumentContent(drive, task[p].docId)]]
    /\ UNCHANGED <<drive, store, cache, now, stamps, calls, Others>>

\* lines 582-586: collection.get answers; processDocuments chunks the document
\* and asks for the embeddings when there is nothing to delete
GetOldChunks(p) ==
    /\ task[p].pc = "v_get"
    /\ LET doc == task[p].doc
           oldIds == collectionGet(store, doc.id)
           chunks == chunkDocument(doc, ProcessOptions).chunks
       IN  task' = [task EXCEPT ![p] = [@ EXCEPT !.old = oldIds,
                        !.pc = IF oldIds # {} THEN "v_delete" ELSE "p_add",
                        !.sameAsOld =
                            /\ oldIds = Range(chunkIds(doc, chunks))
                            /\ \A i \in 1..Len(chunks) :
                                  store[chunkId(doc.id, i - 1)].document = chunks[i]]]
    /\ UNCHANGED <<drive, store, cache, now, stamps, calls, Others>>

\* the calls of getLegalRequirement that hold an answer synthesized from the
\* collection and have not sent it to Redis yet, as updateDocument of p
\* rewrites the collection
Outdated(p, t) ==
    [q \in Procs |->
        IF q # p /\ t[q].op = "get" /\ t[q].pc = "g_set"
        THEN [t[q] EXCEPT !.stale = TRUE]
        ELSE t[q]]

\* lines 587-593: collection.delete answers
DeleteOldChunks(p) ==
    /\ task[p].pc = "v_delete"
    /\ store' = collectionDelete(store, task[p].old)
    /\ task' = Outdated(p, [task EXCEPT ![p] = [@ EXCEPT !.pc = "p_add"]])
    /\ UNCHANGED <<drive, cache, now, stamps, calls, Others>>

\* lines 291-319 and 595: the document is chunked, generateEmbeddings answers
\* (it reads and writes nothing of the collection or of Redis, so its await
\* is part of this step) and collection.add answers; the vectorizer's
\* updateDocument returns and the service asks Redis for the legal: keys
AddChunks(p) ==
    /\ task[p].pc = "p_add"
    /\ chunkDocument(task[p].doc, ProcessOptions).status = "returned"
    /\ LET doc == task[p].doc
           chunks == chunkDocument(doc, ProcessOptions).chunks
       IN  store' = collectionAdd(store, chunkIds(doc, chunks), chunks,
                                  chunkMetadatas(doc, chunks))
    /\ task' = Outdated(p, [task EXCEPT ![p] = [@ EXCEPT !.pc = "s_keys",
                                                         !.processed = <<task[p].doc.id>>]])
    /\ UNCHANGED <<drive, cache, now, stamps, calls, Others>>

\* lines 321-323: generateEmbeddings or collection.add fails (the provider is
\* down, or the collection refuses an id it holds already); processDocuments
\* logs it, and the vectorizer's updateDocument returns
IngestFails(p) ==
    /\ task[p].pc = "p_add"
    /\ task' = [task EXCEPT ![p] = [@ EXCEPT !.pc = "s_keys", !.processed = <<>>]]
    /\ UNCHANGED <<drive, store, cache, now, stamps, calls, Others>>

\* lines 137-139: redis.keys answers
ListKeys(p) ==
    /\ task[p].pc = "s_keys"
    /\ LET keys == redisKeys(cache, "legal")
       IN  task' = [task EXCEPT ![p] = [@ EXCEPT !.keys = keys,
                        !.pc = IF keys # {} THEN "s_del" ELSE "s_set"]]
    /\ UNCHANGED <<drive, store, cache, now, stamps, calls, Others>>

\* line 140: redis.del answers
DeleteKeys(p) ==
    /\ task[p].pc = "s_del"
    /\ cache' = redisDel(cache, task[p].keys)
    /\ task' = [task EXCEPT ![p] = [@ EXCEPT !.pc = "s_set"]]
    /\ UNCHANGED <<drive, store, now, stamps, calls, Others>>

\* lines 144-146: redis.set answers; updateDocument ends
SetLastSync(p) ==
    /\ task[p].pc = "s_set"
    /\ cache' = redisSet(cache, lastSyncKey(task[p].docId), toISOString(now), 0)
    /\ task' = [task EXCEPT ![p] = EndUpdate(@, "ok")]
    /\ UNCHANGED <<drive, store, now, stamps, calls, Others>>

\* lines 147-149 (and 596-599, 173-176): a call of Drive, Chroma or Redis made
\* by updateDocument fails; the service logs it and updateDocument ends
UpdateFails(p) ==
    /\ task[p].pc \in {"u_fetch", "v_get", "v_delete", "s_keys", "s_del", "s_set"}
    /\ task' = [task EXCEPT ![p] = EndUpdate(@, "caught")]
    /\ UNCHANGED <<drive, store, cache, now, stamps, calls, Others>>

\* checkForUpdates is called (by the timer of line 73)
StartPoll(p) ==
    /\ CanStart(p)
    /\ calls' = calls + 1
    /\ task' = [task EXCEPT ![p] = [IdleTask EXCEPT !.op = "poll", !.pc = "c_list"]]
    /\ UNCHANGED <<drive, store, cache, now, stamps, Others>>

\* lines 108-114: files.list answers
ListFiles(p) ==
    /\ task[p].pc = "c_list"
    /\ LET files == filesList(drive)
       IN  task' = [task EXCEPT ![p] =
                IF files = <<>> THEN [@ EXCEPT !.pc = "done", !.ret = "ok"]
                ELSE [@ EXCEPT !.pc = "c_get", !.files = files]]
    /\ UNCHANGED <<drive, store, cache, now, stamps, calls, Others>>

\* lines 115-119: redis.get of the file's last sync answers
GetLastSync(p) ==
    /\ task[p].pc = "c_get"
    /\ LET file == Head(task[p].files)
           key == lastSyncKey(file.id)
       IN  IF key \notin DOMAIN cache \/ file.modifiedTime > DateOf(cache[key].text)
           THEN task' = WithUpdate(p, task[p], file.id)
           ELSE task' = [task EXCEPT ![p] =
                    IF Len(@.files) > 1
                    THEN [@ EXCEPT !.files = Tail(task[p].files)]
                    ELSE [@ EXCEPT !.pc = "done", !.files = <<>>, !.ret = "ok"]]
    /\ UNCHANGED <<drive, store, cache, now, stamps, calls, Others>>

\* lines 121-123: files.list or redis.get fails; checkForUpdates logs it and ends
PollFails(p) ==
    /\ task[p].pc \in {"c_list", "c_get"}
    /\ task' = [task EXCEPT ![p] = [@ EXCEPT !.pc = "done", !.ret = "caught"]]
    /\ UNCHANGED <<drive, store, cache, now, stamps, calls, Others>>

\* getLegalRequirement(requirementType, context) is called (lines 77-82)
StartGet(p, requirementType, context) ==
    /\ CanStart(p)
    /\ calls' = calls + 1
    /\ task' = [task EXCEPT ![p] =
            [IdleTask EXCEPT !.op = "get", !.pc = "g_get",
                             !.rtype = requirementType, !.ctx = context,
                             !.key = cacheKey(requirementType, context)]]
    /\ UNCHANGED <<drive, store, cache, now, stamps, Others>>

\* lines 82-86: redis.get answers with the cached text
CacheHit(p) ==
    /\ task[p].pc = "g_get"
    /\ task[p].key \in DOMAIN cache
    /\ task' = [task EXCEPT ![p] = [@ EXCEPT !.pc = "done", !.ret = "ok", !.hit = TRUE,
                                             !.answer = JSONparse(cache[task[p].key].text)]]
    /\ UNCHANGED <<drive, store, cache, now, stamps, calls, Others>>

\* lines 82-89, 459-462, 508: redis.get answers null; the query is built and
\* its embedding asked for
CacheMiss(p) ==
    /\ task[p].pc = "g_get"
    /\ task[p].key \notin DOMAIN cache
    /\ ~buildQuery(task[p].rtype, task[p].ctx).threw
    /\ task' = [task EXCEPT ![p] = [@ EXCEPT !.pc = "q_query", !.queried = TRUE]]
    /\ UNCHANGED <<drive, store, cache, now, stamps, calls, Others>>

\* lines 459, 469-472, 98-101: redis.get answers null and buildQuery throws
BuildQueryThrows(p) ==
    /\ task[p].pc = "g_get"
    /\ task[p].key \notin DOMAIN cache
    /\ buildQuery(task[p].rtype, task[p].ctx).threw
    /\ task' = [task EXCEPT ![p] = [@ EXCEPT !.pc = "done", !.ret = "threw"]]
    /\ UNCHANGED <<drive, store, cache, now, stamps, calls, Others>>

\* lines 508-523, 468, 95: the embedding of the query arrives (its await reads
\* and writes nothing of the collection or of Redis, so it is part of this
\* step) and collection.query answers; the answer is synthesized
\* and its text sent to Redis
QueryStore(p) ==
    /\ task[p].pc = "q_query"
    /\ LET results == searchSimilar(store, 10, buildFilter(task[p].ctx))
       IN  task' = [task EXCEPT ![p] = [@ EXCEPT !.pc = "g_set",
                        !.answer = synthesizeResponse(results, task[p].rtype)]]
    /\ UNCHANGED <<drive, store, cache, now, stamps, calls, Others>>

\* lines 95-97: redis.setEx answers; the answer is returned
SetCache(p) ==
    /\ task[p].pc = "g_set"
    /\ cache' = redisSetEx(cache, task[p].key, CacheTtl,
                           JSONstringifyAnswer(task[p].answer), now, stamps + 1)
    /\ stamps' = stamps + 1
    /\ task' = [task EXCEPT ![p] = [@ EXCEPT !.pc = "done", !.ret = "ok"]]
    /\ UNCHANGED <<drive, store, now, calls, Others>>

\* lines 98-101: redis.get, the embedding, collection.query or redis.setEx
\* fails; getLegalRequirement logs the error and throws it
GetFails(p) ==
    /\ task[p].pc \in {"g_get", "q_query", "g_set"}
    /\ task' = [task EXCEPT ![p] = [@ EXCEPT !.pc = "done", !.ret = "threw",
                                             !.answer = NoAnswer,
                                             !.cacheFailed = task[p].pc \in {"g_get", "g_set"}]]
    /\ UNCHANGED <<drive, store, cache, now, stamps, calls, Others>>

\* half the time to live of a cached answer passes and a document of the
\* folder is edited
ModifyDoc(d) ==
    /\ drive[d].version < MaxVersion
    /\ now + CacheTtl \div 2 <= MaxNow
    /\ now' = now + CacheTtl \div 2
    /\ drive' = [drive EXCEPT ![d] = [version |-> @.version + 1, modifiedTime |-> now']]
    /\ cache' = Unexpired(cache, now')
    /\ UNCHANGED <<store, stamps, calls, task, Others>>

\* half the time to live of a cached answer passes
Tick ==
    /\ now + CacheTtl \div 2 <= MaxNow
    /\ now' = now + CacheTtl \div 2
    /\ cache' = Unexpired(cache, now + CacheTtl \div 2)
    /\ UNCHANGED <<drive, store, stamps, calls, task, Others>>

Next ==
    \/ \E p \in Procs, d \in DocIds : StartUpdate(p, d)
    \/ \E p \in Procs : FetchDocument(p)
    \/ \E p \in Procs : GetOldChunks(p)
    \/ \E p \in Procs : DeleteOldChunks(p)
    \/ \E p \in Procs : AddChunks(p)
    \/ \E p \in Procs : IngestFails(p)
    \/ \E p \in Procs : ListKeys(p)
    \/ \E p \in Procs : DeleteKeys(p)
    \/ \E p \in Procs : SetLastSync(p)
    \/ \E p \in Procs : UpdateFails(p)
    \/ \E p \in Procs : StartPoll(p)
    \/ \E p \in Procs : ListFiles(p)
    \/ \E p \in Procs : GetLastSync(p)
    \/ \E p \in Procs : PollFails(p)
    \/ \E p \in Procs, i \in QueryInputs : StartGet(p, i[1], i[2])
    \/ \E p \in Procs : CacheHit(p)
    \/ \E p \in Procs : CacheMiss(p)
    \/ \E p \in Procs : BuildQueryThrows(p)
    \/ \E p \in Procs : QueryStore(p)
    \/ \E p \in Procs : SetCache(p)
    \/ \E p \in Procs : GetFails(p)
    \/ \E d \in DocIds : ModifyDoc(d)
    \/ Tick

Spec == Init /\ [][Next]_vars

(***************************************************************************)
(* The claims about chunking                                               *)
(***************************************************************************)
ValidOptions(o) == o.chunkSize >= 1 /\ o.overlap >= 0 /\ o.overlap < o.chunkSize

\* The texts a chunk list re-assembles to.  Between two adjacent chunks the
\* overlap window is the first `overlap` characters of the second chunk where
\* it continues a sliding window, and empty where it starts a new section; both
\* readings are taken for every pair.
RECURSIVE Reassemblies(_, _)
Reassemblies(chunks, overlap) ==
    IF chunks = <<>> THEN {<<>>}
    ELSE IF Len(chunks) = 1 THEN {chunks[1]}
    ELSE LET last == chunks[Len(chunks)]
             front == Reassemblies(SubSeq(chunks, 1, Len(chunks) - 1), overlap)
         IN  {r \o last : r \in front}
             \cup {r \o slice(last, overlap, Len(last)) : r \in front}

\* C3: chunking is loss-less: for a document of at least one character and valid
\* options, with or without preserveLegalCitations, the chunks re-assembled in
\* order without the overlap windows are the original text.
ChunkingIsLossless ==
    (chpc = "returned" /\ Len(chText) >= 1 /\ ValidOptions(chOpts))
        => chText \in Reassemblies(chResult.chunks, chOpts.overlap)

\* C4: a configuration with overlap >= chunkSize is rejected: chunkDocument
\* ends in an error and produces no chunk; it neither returns chunks nor runs
\* for ever.
InvalidOverlapRejected ==
    (chpc # "call" /\ chOpts.overlap >= chOpts.chunkSize)
        => (chResult.status = "error" /\ chResult.chunks = <<>>)

(***************************************************************************)
(* The claims about the cache key and the query                            *)
(***************************************************************************)
\* C6: the cache key depends only on requirementType and on the properties of
\* the context: contexts with the same properties, inserted in whatever order,
\* get the same key.
CacheKeyIgnoresInsertionOrder ==
    (qpc \in {"keyed", "built"} /\ SameProperties(qCtx, qCtx2)) => qKey = qKey2

\* C10: buildQuery returns a query string for every requirementType and every
\* context, among them the contexts the detection engine passes.
BuildQueryReturnsQuery ==
    qpc = "built" => (~qOut.threw /\ qOut.text # <<>>)

(***************************************************************************)
(* Properties of the service                                               *)
(***************************************************************************)
\* the chunks the collection holds for document d
ChunksOf(d) == collectionGet(store, d)
\* the collection holds for doc exactly the chunks processDocuments makes of it
HoldsExactly(doc) ==
    LET chunks == chunkDocument(doc, ProcessOptions).chunks
    IN  /\ ChunksOf(doc.id) = Range(chunkIds(doc, chunks))
        /\ Cardinality(ChunksOf(doc.id)) = Len(chunks)
        /\ \A i \in 1..Len(chunks) :
              /\ store[chunkId(doc.id, i - 1)].document = chunks[i]
              /\ store[chunkId(doc.id, i - 1)].metadata = chunkMetadatas(doc, chunks)[i]
\* the vectorizer's updateDocument has returned to the service's updateDocument
PastIngestion(p) == task[p].pc \in {"s_keys", "s_del", "s_set"}

\* C1: when the vectorizer's updateDocument has ingested a document and no
\* other update of that document ran meanwhile, the collection holds for the
\* document id exactly the ids <docId>_chunk_0 .. <docId>_chunk_(n-1) of the n
\* chunks of that content, each with that content's text: in particular when
\* the chunks found at the start were already those of the same content.
UpdateIsIdempotent ==
    \A p \in Procs :
        (PastIngestion(p) /\ task[p].processed # <<>> /\ ~task[p].overlapped)
            => HoldsExactly(task[p].doc)
\* a second update of the same content has replaced the chunks of the first
SecondUpdateSameContent ==
    \E p \in Procs :
        /\ PastIngestion(p) /\ task[p].processed # <<>> /\ ~task[p].overlapped
        /\ task[p].sameAsOld
        /\ task[p].old = ChunksOf(task[p].docId)
        /\ Cardinality(task[p].old) = 2

\* C2: when no updateDocument is running, the chunks the collection holds for
\* a document are those of one version of it: ids 0 .. n-1 and texts of the n
\* chunks of one export, all with the modification time of that export.
NoUpdateRunning == \A p \in Procs : task[p].pc \notin UpdatePcs
OneVersionAfterUpdates ==
    \A d \in DocIds :
        (NoUpdateRunning /\ ChunksOf(d) # {})
            => \E v \in 1..MaxVersion, id \in ChunksOf(d) :
                  HoldsExactly([getDocumentContent(drive, d) EXCEPT
                                    !.content = ContentOf(v),
                                    !.modifiedTime = store[id].metadata.lastUpdated])

\* getLegalRequirement of p returns with this step
Returns(p) == task[p].op = "get" /\ task[p].pc # "done" /\ task'[p].pc = "done"
\* the cached answers a step removes
Removed == {k \in DOMAIN cache : k.prefix = "legal" /\ k \notin DOMAIN cache'}

\* C5: a miss that returns has stored the text of the returned answer under
\* the key, expiring 86400 seconds later; a cached answer stays until an
\* updateDocument deletes it or its 86400 seconds are over; and a call that
\* finds its key cached returns the answer the cached text parses to, having
\* issued no embedding or vector-store query (or throws because Redis failed).
MissStoresAndHitReturns ==
    [][\A p \in Procs :
          /\ (Returns(p) /\ task[p].pc = "g_set" /\ task'[p].ret = "ok")
                => /\ task[p].key \in DOMAIN cache'
                   /\ JSONparse(cache'[task[p].key].text) = task'[p].answer
                   /\ cache'[task[p].key].expiry = now + 24 * 60 * 60
          /\ \A k \in Removed :
                \/ \E q \in Procs : task[q].pc = "s_del" /\ task'[q].pc # "s_del"
                \/ now' >= cache[k].expiry
          /\ (task[p].pc = "g_get" /\ task[p].key \in DOMAIN cache /\ task'[p] # task[p])
                => /\ Returns(p)
                   /\ ~task'[p].queried
                   /\ \/ task'[p].ret = "threw" /\ task'[p].cacheFailed
                      \/ /\ task'[p].ret = "ok" /\ task'[p].hit
                         /\ task'[p].answer = JSONparse(cache[task[p].key].text)]_vars
\* a call has returned, without a query, the answer that a miss at time 0
\* cached and that the cache still holds
HitAfterMiss ==
    \E p \in Procs :
        /\ task[p].op = "get" /\ task[p].pc = "done" /\ task[p].ret = "ok"
        /\ task[p].hit /\ ~task[p].queried
        /\ task[p].key \in DOMAIN cache
        /\ task[p].answer = JSONparse(cache[task[p].key].text)
        /\ task[p].answer.requirement = "report_template"
        /\ cache[task[p].key].expiry = CacheTtl

\* C7: a call of getLegalRequirement that met a failure of Redis (of the read
\* or of the write) has returned an answer all the same.
CacheFailureNeverFails ==
    \A p \in Procs :
        (task[p].op = "get" /\ task[p].pc = "done" /\ task[p].cacheFailed)
            => (task[p].ret = "ok" /\ task[p].answer # NoAnswer)

\* C8: the vectorizer's updateDocument returns to its caller, and the update
\* ends as successful, only when the document was ingested: its chunks are not
\* absent from the collection through a failed embedding or insertion.
IngestionErrorsPropagate ==
    \A p \in Procs :
        (PastIngestion(p) \/ task[p].updated = "ok") => task[p].processed # <<>>

\* updateDocument of p ends with this step
UpdateEnds(p) == task[p].pc \in UpdatePcs /\ task'[p].updated # "none"
\* the cached answers that were there when updateDocument of p started
StillCached(p, c) == LegalStamps(c) \cap task[p].seen

HitScores == {Null} \cup {Num(n) : n \in {0, 50, 100, 250}}
\* the hits searchSimilar formats (lines 518-523)
Hits ==
    {[id |-> chunkId(d, i), content |-> <<d, VersionDigits[i + 1]>>,
      metadata |-> [source |-> d, docId |-> d, chunkIndex |-> i, lastUpdated |-> 0,
                    category |-> "Legal"],
      score |-> sc] : d \in {"d1", "d2"}, i \in 0..1, sc \in HitScores}
\* the hit sets: each chunk at most once
HitSets ==
    {r \in SeqsUpTo(Hits, MaxHits) : \A i, j \in DOMAIN r : i # j => r[i].id # r[j].id}

AnswerInit ==
    /\ evFn = "synthesizeResponse"
    /\ evIn \in {<<r, "report_template">> : r \in HitSets}
    /\ evOut = <<>>
    /\ evpc = "call"
    /\ ChunkIdle
    /\ QueryIdle
    /\ ServiceIdle

\* queryLegalRequirement line 468
Synthesize ==
    /\ evFn = "synthesizeResponse"
    /\ evpc = "call"
    /\ evOut' = synthesizeResponse(evIn[1], evIn[2])
    /\ evpc' = "done"
    /\ UNCHANGED <<evFn, evIn, chunkVars, queryVars, serviceVars>>

AnswerNext == Synthesize
SpecAnswer == AnswerInit /\ [][AnswerNext]_vars

Synthesized == evFn = "synthesizeResponse" /\ evpc = "done"

SourcesDeduplicated ==
    Synthesized =>
        \A i, j \in DOMAIN evOut.sources :
            i # j => Get(evOut.sources[i], "documentId") # Get(evOut.sources[j], "documentId")

(***************************************************************************)
(* ViolationDetectionEngine: the summary of a report                      *)
(***************************************************************************)
\* the severities the detectors give (critical, high, medium); "low" stands
\* for any other value
Severities == {"critical", "high", "medium", "low"}
Violation(sev) == [type |-> "v", severity |-> sev]
ViolationLists(n) == SeqsUpTo({Violation(sev) : sev \in Severities}, n)

\* penalties[v.severity] || 5 (lines 550-554, 559)
penalties(sev) ==
    CASE sev = "critical" -> 25
      [] sev = "high" -> 15
      [] sev = "medium" -> 5
      [] OTHER -> 5
\* the forEach of lines 558-560, from score
RECURSIVE SubtractPenalties(_, _)
SubtractPenalties(score, violations) ==
    IF violations = <<>> THEN score
    ELSE SubtractPenalties(score - penalties(Head(violations).severity), Tail(violations))
\* calculateComplianceScore without the Math.max(0, ...) of line 562
calculateComplianceScoreNoFloor(violations) == SubtractPenalties(100, violations)
\* calculateComplianceScore (lines 547-563)
calculateComplianceScore(violations) == Max(0, SubtractPenalties(100, violations))

\* baseFines[v.severity] || baseFines.medium (lines 529-533, 539)
baseFines(sev) ==
    CASE sev = "critical" -> [min |-> 100000, max |-> 500000]
      [] sev = "high" -> [min |-> 50000, max |-> 200000]
      [] sev = "medium" -> [min |-> 10000, max |-> 50000]
      [] OTHER -> [min |-> 10000, max |-> 50000]
\* the forEach of lines 538-542, from the totals so far
RECURSIVE AddRanges(_, _)
AddRanges(totals, violations) ==
    IF violations = <<>> THEN totals
    ELSE LET range == baseFines(Head(violations).severity)
         IN  AddRanges([min |-> totals.min + range.min, max |-> totals.max + range.max],
                       Tail(violations))
\* estimateFineRange keeping the band of the last violation only
estimateFineRangeLast(violations) ==
    IF violations = <<>> THEN [min |-> 0, max |-> 0]
    ELSE baseFines(violations[Len(violations)].severity)
\* estimateFineRange (lines 527-545)
estimateFineRange(violations) == AddRanges([min |-> 0, max |-> 0], violations)

\* SpecSummary: the score of every list and of the list with one violation
\* more; the fine range of every list and of every permutation of it
SummaryInit ==
    /\ \/ /\ evFn = "calculateComplianceScore"
          /\ evIn \in {<<l, v>> : l \in ViolationLists(MaxViolations),
                                 v \in ViolationLists(1) \ {<<>>}}
       \/ /\ evFn = "estimateFineRange"
          /\ evIn \in {<<l, m>> : l \in ViolationLists(MaxPermuted),
                                  m \in ViolationLists(MaxPermuted)}
          /\ evIn[2] \in Reorderings(evIn[1])
    /\ evOut = <<>>
    /\ evpc = "call"
    /\ ChunkIdle
    /\ QueryIdle
    /\ ServiceIdle

\* generateSummary line 521, for the list and for the list with a violation more
Score ==
    /\ evFn = "calculateComplianceScore"
    /\ evpc = "call"
    /\ evOut' = <<calculateComplianceScore(evIn[1]),
                  calculateComplianceScore(evIn[1] \o evIn[2])>>
    /\ evpc' = "done"
    /\ UNCHANGED <<evFn, evIn, chunkVars, queryVars, serviceVars>>

\* generateSummary line 520, for the list and for a permutation of it
EstimateFine ==
    /\ evFn = "estimateFineRange"
    /\ evpc = "call"
    /\ evOut' = <<estimateFineRange(evIn[1]), estimateFineRange(evIn[2])>>
    /\ evpc' = "done"
    /\ UNCHANGED <<evFn, evIn, chunkVars, queryVars, serviceVars>>

SummaryNext == Score \/ EstimateFine
SpecSummary == SummaryInit /\ [][SummaryNext]_vars

\* how many violations of l have severity sev
CountOf(l, sev) == Cardinality({i \in DOMAIN l : l[i].severity = sev})
Scored == evFn = "calculateComplianceScore" /\ evpc = "done"
Estimated == evFn = "estimateFineRange" /\ evpc = "done"

\* C13: the compliance score is from 0 to 100, it is 100 less 25 for each
\* critical, 15 for each high and 5 for each other violation, or 0 when that is
\* negative, and the score of a list with one violation more is not higher.
ScoreBoundedAndMonotone ==
    Scored =>
        LET l == evIn[1]
            raw == 100 - 25 * CountOf(l, "critical") - 15 * CountOf(l, "high")
                       - 5 * (Len(l) - CountOf(l, "critical") - CountOf(l, "high"))
        IN  /\ evOut[1] = (IF raw < 0 THEN 0 ELSE raw)
            /\ 0 <= evOut[1] /\ evOut[1] <= 100
            /\ 0 <= evOut[2] /\ evOut[2] <= evOut[1]
\* five critical violations score 0, and so do six
FiveCriticalsScoreZero ==
    /\ Scored
    /\ Len(evIn[1]) = 5 /\ CountOf(evIn[1], "critical") = 5
    /\ evIn[2][1].severity = "critical"
    /\ evOut = <<0, 0>>

\* C14: the fine range is the sum of the bands of the violations (critical
\* 100000-500000, high 50000-200000, any other 10000-50000), the same for
\* every permutation of the list.
FineRangeAdditive ==
    Estimated =>
        LET l == evIn[1]
            c == CountOf(l, "critical")
            h == CountOf(l, "high")
            m == Len(l) - c - h
        IN  /\ evOut[1] = [min |-> 100000 * c + 50000 * h + 10000 * m,
                           max |-> 500000 * c + 200000 * h + 50000 * m]
            /\ evOut[2] = evOut[1]
\* [critical, high] and [high, critical] both give 150000-700000
CriticalHighRange ==
    /\ Estimated
    /\ evIn[1] = <<Violation("critical"), Violation("high")>>
    /\ evIn[2] = <<Violation("high"), Violation("critical")>>
    /\ evOut[1] = [min |-> 150000, max |-> 700000]
    /\ evOut[2] = [min |-> 150000, max |-> 700000]

(***************************************************************************)
(* ViolationDetectionEngine: the cookie check                             *)
(***************************************************************************)
\* String.prototype.includes
includes(str, pattern) ==
    \E i \in 1..(Len(str) - Len(pattern) + 1) :
        SubSeq(str, i, i + Len(pattern) - 1) = pattern
\* String.prototype.toLowerCase
lowerCase(str) == [i \in 1..Len(str) |-> toLowerCase(str[i])]
\* essentialPatterns (lines 384-386)
essentialPatterns ==
    <<<<"s","e","s","s","i","o","n">>, <<"c","s","r","f">>, <<"a","u","t","h">>,
      <<"s","e","c","u","r","i","t","y">>>>
\* isEssentialCookie comparing the name as it is written
isEssentialCookieCaseSensitive(name) ==
    \E i \in DOMAIN essentialPatterns : includes(name, essentialPatterns[i])
\* isEssentialCookie (lines 383-391)
isEssentialCookie(name) ==
    \E i \in DOMAIN essentialPatterns : includes(lowerCase(name), essentialPatterns[i])
\* checkCookieCompliance (lines 363-381); the description is kept as the count
\* it is built from
checkCookieCompliance(cookies) ==
    LET nonEssentialCookies == SelectSeq(cookies, LAMBDA cookie : ~isEssentialCookie(cookie.name))
    IN  IF Len(nonEssentialCookies) > 0
        THEN <<[type |-> "cookie_consent_violation", severity |-> "medium",
                description |-> Len(nonEssentialCookies),
                evidence |-> [i \in 1..Len(nonEssentialCookies) |-> nonEssentialCookies[i].name]]>>
        ELSE <<>>

\* cookie names: three that hold an essential pattern (two of them in capitals)
\* and three that hold none
SessionId == <<"s","e","s","s","i","o","n","_","i","d">>
XsrfName == <<"X","-","C","S","R","F">>
MyAuth == <<"M","y","A","u","t","h">>
GaName == <<"_","g","a">>
FbpName == <<"_","f","b","p">>
SecName == <<"s","e","c","u","r","e">>
EssentialNames == {SessionId, XsrfName, MyAuth}
CookieNames == EssentialNames \cup {GaName, FbpName, SecName}
CookieLists == SeqsUpTo({[name |-> n] : n \in CookieNames}, MaxCookies)

CookieInit ==
    /\ evFn = "checkCookieCompliance"
    /\ evIn \in CookieLists
    /\ evOut = <<>>
    /\ evpc = "call"
    /\ ChunkIdle
    /\ QueryIdle
    /\ ServiceIdle

\* detectViolations line 314
CheckCookies ==
    /\ evFn = "checkCookieCompliance"
    /\ evpc = "call"
    /\ evOut' = checkCookieCompliance(evIn)
    /\ evpc' = "done"
    /\ UNCHANGED <<evFn, evIn, chunkVars, queryVars, serviceVars>>

CookieNext == CheckCookies
SpecCookies == CookieInit /\ [][CookieNext]_vars

CookiesChecked == evFn = "checkCookieCompliance" /\ evpc = "done"
\* the names of a cookie list that are not essential, in the order of the list
RECURSIVE Offending(_)
Offending(cookies) ==
    IF cookies = <<>> THEN <<>>
    ELSE IF Head(cookies).name \in EssentialNames THEN Offending(Tail(cookies))
         ELSE <<Head(cookies).name>> \o Offending(Tail(cookies))

\* C15: the cookie check gives no violation when every cookie name holds one
\* of session, csrf, auth, security (in any case), and otherwise exactly one
\* cookie_consent_violation of severity medium whose evidence is the names of
\* the other cookies in the order of the list.
OneCookieViolation ==
    CookiesChecked =>
        IF Offending(evIn) = <<>> THEN evOut = <<>>
        ELSE /\ Len(evOut) = 1
             /\ evOut[1].type = "cookie_consent_violation"
             /\ evOut[1].severity = "medium"
             /\ evOut[1].evidence = Offending(evIn)
\* cookies session_id and _ga give the evidence [_ga]
SessionAndGa ==
    /\ CookiesChecked
    /\ evIn = <<[name |-> SessionId], [name |-> GaName]>>
    /\ Len(evOut) = 1
    /\ evOut[1].evidence = <<GaName>>

(***************************************************************************)
(* LegalKnowledgeService.calculatePotentialFine                            *)
(***************************************************************************)
FineThrew == [threw |-> TRUE, totalFine |-> 0, calculation |-> <<>>, legalBasis |-> Undefined]
\* the context of lines 213-216
fineContext(violations) ==
    <<Prop("violations", Arr([i \in 1..Len(violations) |-> violations[i].type])),
      Prop("jurisdiction", Str("Italy"))>>
\* lines 221-233 with the base amounts of fineMatrix.baseFines
RECURSIVE fineCalculation(_, _)
fineCalculation(violations, baseAmounts) ==
    IF violations = <<>> THEN <<>>
    ELSE LET violation == Head(violations)
             baseAmount == IF violation.type \in DOMAIN baseAmounts
                           THEN baseAmounts[violation.type] ELSE 0
             multiplier == IF violation.severity = "critical" THEN 2 ELSE 1
         IN  <<[violation |-> violation.type, baseAmount |-> baseAmount,
                multiplier |-> multiplier, amount |-> baseAmount * multiplier]>>
             \o fineCalculation(Tail(violations), baseAmounts)
RECURSIVE SumAmounts(_)
SumAmounts(calculation) ==
    IF calculation = <<>> THEN 0 ELSE Head(calculation).amount + SumAmounts(Tail(calculation))
\* calculatePotentialFine (lines 211-240) when the cache holds no answer for
\* the key: getLegalRequirement throws what buildQuery throws (lines 89, 459,
\* 98-101); an answer of synthesizeResponse has no baseFines property, so
\* fineMatrix.baseFines[violation.type] (line 222) throws a TypeError
calculatePotentialFine(violations, st) ==
    LET context == fineContext(violations)
    IN  IF buildQuery("fine_calculation_matrix", context).threw THEN FineThrew
        ELSE LET fineMatrix == synthesizeResponse(searchSimilar(st, 10, buildFilter(context)),
                                                  "fine_calculation_matrix")
             IN  IF "baseFines" \notin DOMAIN fineMatrix
                 THEN IF violations # <<>> THEN FineThrew
                      ELSE [threw |-> FALSE, totalFine |-> 0, calculation |-> <<>>,
                            legalBasis |-> Undefined]
                 ELSE LET calculation == fineCalculation(violations, fineMatrix.baseFines)
                      IN  [threw |-> FALSE, totalFine |-> SumAmounts(calculation),
                           calculation |-> calculation, legalBasis |-> Undefined]

FinedViolations ==
    SeqsUpTo({[type |-> t, severity |-> sev] :
                 t \in {"cookie_consent_violation", "biometric_without_consent"},
                 sev \in {"critical", "medium"}}, MaxFined)

FineInit ==
    /\ evFn = "calculatePotentialFine"
    /\ evIn \in FinedViolations
    /\ evOut = <<>>
    /\ evpc = "call"
    /\ ChunkIdle
    /\ QueryIdle
    /\ ServiceIdle

\* calculatePotentialFine(violations) is called on the started service
CalculateFine ==
    /\ evFn = "calculatePotentialFine"
    /\ evpc = "call"
    /\ evOut' = calculatePotentialFine(evIn, store)
    /\ evpc' = "done"
    /\ UNCHANGED <<evFn, evIn, chunkVars, queryVars, serviceVars>>

FineNext == CalculateFine
SpecFine == FineInit /\ [][FineNext]_vars

\* C16: calculatePotentialFine returns, for every violation list, a breakdown
\* with one entry for each violation in the order of the list, each amount
\* its base amount times 2 for a critical violation and times 1 otherwise,
\* and a totalFine that is the sum of the amounts.
FineIsSumOfAmounts ==
    (evFn = "calculatePotentialFine" /\ evpc = "done") =>
        /\ ~evOut.threw
        /\ Len(evOut.calculation) = Len(evIn)
        /\ \A i \in DOMAIN evOut.calculation :
              /\ evOut.calculation[i].violation = evIn[i].type
              /\ evOut.calculation[i].amount =
                    evOut.calculation[i].baseAmount
                        * (IF evIn[i].severity = "critical" THEN 2 ELSE 1)
        /\ evOut.totalFine = SumAmounts(evOut.calculation)

(***************************************************************************)
(* LegalKnowledgeVectorizer.extractLegalReferences                         *)
(* A text is the sequence of its words, one space between two words; the   *)
(* four regular expressions are matched word by word.                      *)
(***************************************************************************)
\* \d+ with the optional (\d+) and ([a-z]) of line 409
ArticleNumbers == {"5", "6(1)(a)"}
\* (\d+)\/(\d{4}) of line 434 and (\d+)(?:\/(\d{4}))? of line 445
DecreeNumbers == {"196/2003"}
DecisionNumbers == {"5", "196/2003"}
WordOr(text, i) == IF i <= Len(text) THEN text[i] ELSE ""
\* the position after the optional words "of" and "the" that follow position i
AfterOfThe(text, i) ==
    LET j == IF WordOr(text, i) = "of" THEN i + 1 ELSE i
    IN  IF WordOr(text, j) = "the" THEN j + 1 ELSE j
\* the number of words the pattern of a family matches at position i, 0 if none
MatchLength(family, text, i) ==
    CASE family = "GDPR" ->
            IF /\ WordOr(text, i) = "Article" /\ WordOr(text, i + 1) \in ArticleNumbers
               /\ WordOr(text, AfterOfThe(text, i + 2)) = "GDPR"
            THEN AfterOfThe(text, i + 2) - i + 1 ELSE 0
      [] family = "AI_Act" ->
            IF /\ WordOr(text, i) = "Article" /\ WordOr(text, i + 1) = "5"
               /\ WordOr(text, AfterOfThe(text, i + 2)) = "AI"
               /\ WordOr(text, AfterOfThe(text, i + 2) + 1) = "Act"
            THEN AfterOfThe(text, i + 2) - i + 2 ELSE 0
      [] family = "Italian_Decree" ->
            IF WordOr(text, i) = "D.Lgs."
            THEN LET j == IF WordOr(text, i + 1) = "n." THEN i + 2 ELSE i + 1
                 IN  IF WordOr(text, j) \in DecreeNumbers THEN j - i + 1 ELSE 0
            ELSE 0
      [] family = "Garante_Decision" ->
            IF WordOr(text, i) \in {"Provvedimento", "Decisione"}
            THEN LET j == IF WordOr(text, i + 1) = "del" THEN i + 2 ELSE i + 1
                     k == IF WordOr(text, j + 1) = "n." THEN j + 2 ELSE j + 1
                 IN  IF WordOr(text, j) = "Garante" /\ WordOr(text, k) \in DecisionNumbers
                     THEN k - i + 1 ELSE 0
            ELSE 0
\* the while loop of pattern.exec (lines 411, 423, 433, 444) from position i:
\* each match is pushed and the search goes on after it; index is match.index,
\* which the code does not keep
RECURSIVE ExecAll(_, _, _)
ExecAll(family, text, i) ==
    IF i > Len(text) THEN <<>>
    ELSE LET n == MatchLength(family, text, i)
         IN  IF n > 0
             THEN <<[type |-> family, text |-> SubSeq(text, i, i + n - 1), index |-> i]>>
                  \o ExecAll(family, text, i + n)
             ELSE ExecAll(family, text, i + 1)
\* extractLegalReferences (lines 405-454)
extractLegalReferences(text) ==
    ExecAll("GDPR", text, 1) \o ExecAll("AI_Act", text, 1)
        \o ExecAll("Italian_Decree", text, 1) \o ExecAll("Garante_Decision", text, 1)

RefWords == {"Article", "5", "GDPR", "AI", "Act", "D.Lgs.", "196/2003"}
SampleRefTexts ==
    {<<"Article", "5", "GDPR", "and", "Article", "5", "GDPR">>,
     <<"Provvedimento", "del", "Garante", "n.", "5", "on", "Article", "6(1)(a)", "of", "the", "GDPR">>,
     <<"Decisione", "Garante", "196/2003", "D.Lgs.", "n.", "196/2003", "Article", "5", "of", "the", "AI", "Act">>}
RefTexts == SeqsUpTo(RefWords, MaxWords) \cup SampleRefTexts

RefInit ==
    /\ evFn = "extractLegalReferences"
    /\ evIn \in RefTexts
    /\ evOut = <<>>
    /\ evpc = "call"
    /\ ChunkIdle
    /\ QueryIdle
    /\ ServiceIdle

\* processDocuments line 308
ExtractReferences ==
    /\ evFn = "extractLegalReferences"
    /\ evpc = "call"
    /\ evOut' = extractLegalReferences(evIn)
    /\ evpc' = "done"
    /\ UNCHANGED <<evFn, evIn, chunkVars, queryVars, serviceVars>>

RefNext == ExtractReferences
SpecRefs == RefInit /\ [][RefNext]_vars

\* C18: the references extractLegalReferences returns are in the order in
\* which they occur in the text: each starts after the one before it.
ReferencesInTextOrder ==
    (evFn = "extractLegalReferences" /\ evpc = "done") =>
        \A i \in 1..(Len(evOut) - 1) : evOut[i].index < evOut[i + 1].index

(***************************************************************************)
(* ViolationDetectionEngine.scanPlatform                                   *)
(* The run is kept in evOut, its place in evpc; evIn holds what deepScan   *)
(* finds on the page.  The browser and the knowledge service handed to the *)
(* constructor answer or fail.                                             *)
(***************************************************************************)
\* a violation as the detectors push it; affectsMinors is "undefined" where
\* the detector sets no such property
Found(type, severity, affectsMinors) ==
    [type |-> type, severity |-> severity, affectsMinors |-> affectsMinors]
\* scanResults.educationFeatures?.collectsMinorData || false (line 346)
collectsMinorData(scanResults) ==
    scanResults.educationFeatures.present /\ scanResults.educationFeatures.collectsMinorData
\* checkBiometricCompliance (lines 334-361)
RECURSIVE checkBiometricCompliance(_, _)
checkBiometricCompliance(indicators, scanResults) ==
    IF indicators = <<>> THEN <<>>
    ELSE LET indicator == Head(indicators)
         IN  (IF indicator = "proctoring_service"
              THEN <<Found("unauthorized_biometric_processing", "critical",
                           IF collectsMinorData(scanResults) THEN "true" ELSE "false")>>
              ELSE <<>>)
             \o (IF indicator = "webcam_capability" /\ ~scanResults.privacyPolicy
                 THEN <<Found("missing_privacy_policy", "high", "undefined")>>
                 ELSE <<>>)
             \o checkBiometricCompliance(Tail(indicators), scanResults)
\* checkThirdPartyCompliance (lines 393-410)
RECURSIVE checkThirdPartyCompliance(_)
checkThirdPartyCompliance(services) ==
    IF services = <<>> THEN <<>>
    ELSE (IF Head(services) \in {"Google Analytics", "Facebook", "Google Ads"}
          THEN <<Found("unauthorized_data_transfer", "high", "undefined")>>
          ELSE <<>>)
         \o checkThirdPartyCompliance(Tail(services))
\* detectViolations up to the education check (lines 300-320)
detectedBeforeEducation(scanResults) ==
    LET cookieViolations == checkCookieCompliance(scanResults.cookies)
    IN  (IF Len(scanResults.biometricIndicators) > 0
         THEN checkBiometricCompliance(scanResults.biometricIndicators, scanResults)
         ELSE <<>>)
        \o [i \in 1..Len(cookieViolations) |->
               Found(cookieViolations[i].type, cookieViolations[i].severity, "undefined")]
        \o checkThirdPartyCompliance(scanResults.thirdPartyServices)
\* checkEducationCompliance asks the knowledge service (lines 323, 415)
needsMinorRequirements(scanResults) ==
    /\ scanResults.educationFeatures.present
    /\ scanResults.educationFeatures.collectsMinorData
    /\ scanResults.educationFeatures.hasExams

\* generateSummary (lines 513-525)
generateSummary(violations) ==
    [totalViolations |-> Len(violations),
     criticalViolations |-> Len(SelectSeq(violations, LAMBDA v : v.severity = "critical")),
     highViolations |-> Len(SelectSeq(violations, LAMBDA v : v.severity = "high")),
     mediumViolations |-> Len(SelectSeq(violations, LAMBDA v : v.severity = "medium")),
     affectsMinors |-> \E i \in DOMAIN violations : violations[i].affectsMinors = "true",
     estimatedFineRange |-> estimateFineRange(violations),
     complianceScore |-> calculateComplianceScore(violations)]

\* what the knowledge service answers to the lookups of enrichViolations
severityAnswer(violation) ==
    [requirement |-> "violation_severity", violation_type |-> violation.type,
     affects_minors |-> violation.affectsMinors = "true"]
precedentsAnswer(violation) == <<[precedentOf |-> violation.type]>>
\* the violation pushed as it was, with nothing looked up for it
enrichedNot(violation) ==
    [type |-> violation.type, severity |-> violation.severity,
     affectsMinors |-> violation.affectsMinors,
     severityDetails |-> [requirement |-> "none", violation_type |-> "none",
                          affects_minors |-> FALSE],
     precedents |-> <<>>,
     remediationRequired |-> "undefined"]
\* the object pushed in lines 450-455
enrichedOne(violation) ==
    [type |-> violation.type, severity |-> violation.severity,
     affectsMinors |-> violation.affectsMinors,
     severityDetails |-> severityAnswer(violation),
     precedents |-> SubSeq(precedentsAnswer(violation), 1, Min(3, Len(precedentsAnswer(violation)))),
     remediationRequired |-> violation.type]

\* what deepScan can find on a page; educationFeatures is present only when
\* the scan ran with platformType 'education' (line 147)
EducationFeatures ==
    {[present |-> FALSE, collectsMinorData |-> FALSE, hasExams |-> FALSE]}
    \cup {[present |-> TRUE, collectsMinorData |-> c, hasExams |-> h] : c, h \in BOOLEAN}
ScanResults ==
    [biometricIndicators : {<<>>, <<"proctoring_service">>, <<"webcam_capability">>,
                            <<"proctoring_service", "webcam_capability">>},
     cookies : {<<>>, <<[name |-> GaName]>>},
     thirdPartyServices : {<<>>, <<"Google Analytics">>},
     educationFeatures : EducationFeatures,
     privacyPolicy : BOOLEAN]

\* a run of scanPlatform before puppeteer.launch: error is what the try block
\* threw, thrown what scanPlatform rejects with, result the report it returns
ScanStart ==
    [detected |-> <<>>, enriched |-> <<>>, report |-> <<>>,
     error |-> "none", thrown |-> "none", result |-> <<>>]

ScanInit ==
    /\ evFn = "scanPlatform"
    /\ evIn \in ScanResults
    /\ evOut = ScanStart
    /\ evpc = "launch"
    /\ ChunkIdle
    /\ QueryIdle
    /\ ServiceIdle

ScanAt(pc) == evFn = "scanPlatform" /\ evpc = pc
ScanStep == UNCHANGED <<evFn, evIn, chunkVars, queryVars, serviceVars>>
\* an await inside the try block rejects: control goes to the finally block
ScanThrows(pc, error) ==
    /\ ScanAt(pc)
    /\ evOut' = [evOut EXCEPT !.error = error]
    /\ evpc' = "close"
    /\ ScanStep

\* lines 17-20
Launch ==
    /\ ScanAt("launch")
    /\ evpc' = "requirements"
    /\ UNCHANGED evOut
    /\ ScanStep
\* puppeteer.launch rejects, outside the try block
LaunchFails ==
    /\ ScanAt("launch")
    /\ evOut' = [evOut EXCEPT !.thrown = "launch_error"]
    /\ evpc' = "done"
    /\ ScanStep
\* lines 24-30
GetRequirements ==
    /\ ScanAt("requirements")
    /\ evpc' = "deepScan"
    /\ UNCHANGED evOut
    /\ ScanStep
RequirementsFail == ScanThrows("requirements", "lookup_error")
\* line 33, then the synchronous checks of detectViolations (lines 300-320)
DeepScan ==
    /\ ScanAt("deepScan")
    /\ evOut' = [evOut EXCEPT !.detected = detectedBeforeEducation(evIn)]
    /\ evpc' = IF needsMinorRequirements(evIn) THEN "education" ELSE "severity"
    /\ ScanStep
\* deepScan rethrows (lines 151-153)
DeepScanFails == ScanThrows("deepScan", "scan_error")
\* checkEducationCompliance (lines 412-430)
CheckEducation ==
    /\ ScanAt("education")
    /\ evOut' = [evOut EXCEPT !.detected =
                    Append(evOut.detected, Found("minor_data_processing", "critical", "undefined"))]
    /\ evpc' = "severity"
    /\ ScanStep
CheckEducationFails == ScanThrows("education", "lookup_error")
\* enrichViolations, the first await of a turn of the loop (lines 437-443)
GetSeverity ==
    /\ ScanAt("severity")
    /\ Len(evOut.enriched) < Len(evOut.detected)
    /\ evpc' = "precedents"
    /\ UNCHANGED evOut
    /\ ScanStep
GetSeverityFails ==
    /\ Len(evOut.enriched) < Len(evOut.detected)
    /\ ScanThrows("severity", "lookup_error")
\* the second await and the push (lines 446-456)
GetPrecedents ==
    /\ ScanAt("precedents")
    /\ evOut' = [evOut EXCEPT !.enriched =
                    Append(evOut.enriched, enrichedOne(evOut.detected[Len(evOut.enriched) + 1]))]
    /\ evpc' = "severity"
    /\ ScanStep
GetPrecedentsFail == ScanThrows("precedents", "lookup_error")
\* the return statement (lines 41-48); the finally block runs before it
\* takes effect
BuildReport ==
    /\ ScanAt("severity")
    /\ Len(evOut.enriched) = Len(evOut.detected)
    /\ evOut' = [evOut EXCEPT !.report =
                    <<[violations |-> evOut.enriched,
                       summary |-> generateSummary(evOut.enriched)]>>]
    /\ evpc' = "close"
    /\ ScanStep
\* browser.close() resolves (line 50): the pending error or return completes
CloseBrowser ==
    /\ ScanAt("close")
    /\ evOut' = [evOut EXCEPT !.thrown = evOut.error,
                              !.result = IF evOut.error = "none" THEN evOut.report ELSE <<>>]
    /\ evpc' = "done"
    /\ ScanStep
\* browser.close() rejects: its error replaces whatever the try block left
CloseBrowserFails ==
    /\ ScanAt("close")
    /\ evOut' = [evOut EXCEPT !.thrown = "close_error"]
    /\ evpc' = "done"
    /\ ScanStep

ScanNext ==
    \/ Launch
    \/ LaunchFails
    \/ GetRequirements
    \/ RequirementsFail
    \/ DeepScan
    \/ DeepScanFails
    \/ CheckEducation
    \/ CheckEducationFails
    \/ GetSeverity
    \/ GetSeverityFails
    \/ GetPrecedents
    \/ GetPrecedentsFail
    \/ BuildReport
    \/ CloseBrowser
    \/ CloseBrowserFails
SpecScan == ScanInit /\ [][ScanNext]_vars

ScanDone == evFn = "scanPlatform" /\ evpc = "done"
\* the violations the detectors find on a page, counted without running them
ExpectedTypes(scanResults) ==
    (IF \E i \in DOMAIN scanResults.biometricIndicators :
           scanResults.biometricIndicators[i] = "proctoring_service"
     THEN {"unauthorized_biometric_processing"} ELSE {})
    \cup (IF /\ \E i \in DOMAIN scanResults.biometricIndicators :
                  scanResults.biometricIndicators[i] = "webcam_capability"
             /\ ~scanResults.privacyPolicy
          THEN {"missing_privacy_policy"} ELSE {})
    \cup (IF scanResults.cookies # <<>> THEN {"cookie_consent_violation"} ELSE {})
    \cup (IF scanResults.thirdPartyServices # <<>> THEN {"unauthorized_data_transfer"} ELSE {})
    \cup (IF /\ scanResults.educationFeatures.present
             /\ scanResults.educationFeatures.collectsMinorData
             /\ scanResults.educationFeatures.hasExams
          THEN {"minor_data_processing"} ELSE {})
\* a returned report holds every detected violation, enriched, and a summary
\* counted from exactly those
ReportIsComplete ==
    ScanDone /\ evOut.result # <<>> =>
        LET report == evOut.result[1]
        IN  /\ evOut.thrown = "none"
            /\ {report.violations[i].type : i \in DOMAIN report.violations} = ExpectedTypes(evIn)
            /\ Len(report.violations) = Cardinality(ExpectedTypes(evIn))
            /\ \A i \in DOMAIN report.violations :
                   /\ report.violations[i].severityDetails.requirement = "violation_severity"
                   /\ report.violations[i].severityDetails.violation_type = report.violations[i].type
                   /\ Len(report.violations[i].precedents) <= 3
                   /\ report.violations[i].remediationRequired = report.violations[i].type
            /\ report.summary.totalViolations = Len(report.violations)
            /\ report.summary.criticalViolations = CountOf(report.violations, "critical")
            /\ report.summary.highViolations = CountOf(report.violations, "high")
            /\ report.summary.mediumViolations = CountOf(report.violations, "medium")
\* a failed run returns nothing
NoReportOnFailure ==
    ScanDone /\ (evOut.error # "none" \/ evOut.thrown # "none") => evOut.result = <<>>
ReportReturned ==
    ScanDone /\ evOut.result # <<>> /\ Len(evOut.result[1].violations) = 5

FailedInTry == evOut.error \in {"scan_error", "lookup_error"}
\* when deepScan or a knowledge lookup fails, scanPlatform fails with that
\* error and returns no report
ScanFailsWithItsError ==
    ScanDone /\ FailedInTry => evOut.thrown = evOut.error /\ evOut.result = <<>>

\* C17: when deepScan or a knowledge lookup fails, scanPlatform returns no
\* report and fails with that error, or with the error of browser.close()
\* when closing the browser fails too; a report it returns holds every
\* detected violation, enriched, and the summary of exactly those
ScanIsAllOrNothing ==
    /\ ScanDone /\ FailedInTry =>
           evOut.thrown \in {evOut.error, "close_error"} /\ evOut.result = <<>>
    /\ NoReportOnFailure
    /\ ReportIsComplete
\* a lookup of the enrichment failed after a violation had been enriched
FailedAfterEnriching ==
    /\ ScanDone
    /\ evOut.error = "lookup_error"
    /\ evOut.thrown = "lookup_error"
    /\ Len(evOut.enriched) > 0
    /\ Len(evOut.enriched) < Len(evOut.detected)

(***************************************************************************)
(* SpecStartup: initialize() and what runs after it.  evpc is the place in *)
(* initialize, evOut the way changes of the folder reach the service once  *)
(* watchLegalDocuments has returned.  The service's work runs as "p1".     *)
(***************************************************************************)
StartupInit ==
    /\ evFn = "initialize"
    /\ evIn = <<>>
    /\ evOut = "none"
    /\ evpc = "authenticate"
    /\ ChunkIdle
    /\ QueryIdle
    /\ ServiceIdle

StartupStep(from, to) ==
    /\ evFn = "initialize"
    /\ evpc = from
    /\ evpc' = to
    /\ UNCHANGED <<evFn, evIn, chunkVars, queryVars, serviceVars>>
\* lines 24-25
AuthenticateGoogle == StartupStep("authenticate", "connect") /\ UNCHANGED evOut
\* lines 28-31
ConnectRedis == StartupStep("connect", "knowledgeBase") /\ UNCHANGED evOut
\* line 34 and lines 268-283: the collection is created or fetched; nothing
\* is read from the folder and nothing is added to the collection
InitializeKnowledgeBase == StartupStep("knowledgeBase", "watch") /\ UNCHANGED evOut
\* lines 40-43: a step of initialize throws
InitializeFails ==
    /\ evpc \in {"authenticate", "connect", "knowledgeBase"}
    /\ StartupStep(evpc, "failed")
    /\ UNCHANGED evOut
\* lines 58-69: files.watch answers, the webhook is registered
WatchRegistered == StartupStep("watch", "initialized") /\ evOut' = "webhook"
\* lines 70-74: files.watch fails, the timer of checkForUpdates is set
WatchFallsBack == StartupStep("watch", "initialized") /\ evOut' = "polling"

Initialized == evFn = "initialize" /\ evpc = "initialized"
ServiceFree == task["p1"].pc \in {"idle", "done"}
\* line 73: the timer fires and checkForUpdates starts
TimerFires ==
    /\ Initialized
    /\ evOut = "polling"
    /\ ServiceFree
    /\ task' = [task EXCEPT !["p1"] = [IdleTask EXCEPT !.op = "poll", !.pc = "c_list"]]
    /\ UNCHANGED <<drive, store, cache, now, stamps, calls, Others>>
\* lines 58-67: Drive reports to the webhook address a document edited since
\* the service started, and the document is updated
ChangeNotified(d) ==
    /\ Initialized
    /\ evOut = "webhook"
    /\ ServiceFree
    /\ drive[d].version > 1
    /\ IF lastSyncKey(d) \in DOMAIN cache
       THEN drive[d].modifiedTime > DateOf(cache[lastSyncKey(d)].text)
       ELSE TRUE
    /\ task' = WithUpdate("p1", [IdleTask EXCEPT !.op = "update"], d)
    /\ UNCHANGED <<drive, store, cache, now, stamps, calls, Others>>

\* the steps of initialize
InitializeSteps ==
    \/ AuthenticateGoogle
    \/ ConnectRedis
    \/ InitializeKnowledgeBase
    \/ WatchRegistered
    \/ WatchFallsBack
StartupNext ==
    \/ AuthenticateGoogle
    \/ ConnectRedis
    \/ InitializeKnowledgeBase
    \/ InitializeFails
    \/ WatchRegistered
    \/ WatchFallsBack
    \/ TimerFires
    \/ \E d \in DocIds : ChangeNotified(d)
    \/ ListFiles("p1")
    \/ GetLastSync("p1")
    \/ FetchDocument("p1")
    \/ GetOldChunks("p1")
    \/ DeleteOldChunks("p1")
    \/ AddChunks("p1")
    \/ IngestFails("p1")
    \/ ListKeys("p1")
    \/ SetLastSync("p1")
    \/ UpdateFails("p1")
    \/ PollFails("p1")
    \/ \E d \in DocIds : ModifyDoc(d)
\* initialize goes on, the timer keeps firing, a reported change is handled,
\* and every call that checkForUpdates or updateDocument awaits ends
SpecStartup ==
    /\ StartupInit
    /\ [][StartupNext]_vars
    /\ WF_vars(InitializeSteps)
    /\ WF_vars(TimerFires)
    /\ WF_vars(\E d \in DocIds : ChangeNotified(d))
    /\ []<>ServiceFree

AllStored == \A d \in DocIds : collectionGet(store, d) # {}
\* with the webhook registered, a document nobody edits is never stored
UneditedStaysOut ==
    \A d \in DocIds :
        Initialized /\ evOut = "webhook" /\ drive[d].version = 1 => collectionGet(store, d) = {}
\* C19: once initialize() has completed, every document of the folder is
\* eventually in the vector store, with the webhook registered or with
\* polling started
StartupIngestsFolder == Initialized ~> AllStored

(***************************************************************************)
(* The claim about answers cached while a document is updated              *)
(***************************************************************************)
\* updateDocument of p has completed: the document was re-ingested and every
\* call of Redis answered
UpdateCompleted(p) ==
    /\ task[p].op = "update"
    /\ task[p].pc = "done"
    /\ task[p].updated = "ok"
    /\ task[p].processed # <<>>
\* C20: once an updateDocument run has completed, the cache holds no answer
\* that getLegalRequirement synthesized from the collection as it was before
\* the update rewrote it
NoAnswerFromBeforeUpdate ==
    \A p, q \in Procs :
        (UpdateCompleted(q) /\ task[p].op = "get" /\ task[p].stale)
            => task[p].key \notin DOMAIN cache

(***************************************************************************)
(* The claim about a re-ingestion that failed                              *)
(***************************************************************************)
\* updateDocument of p is at its last await and its document was not
\* ingested: processDocuments caught a failure of the embedding or of
\* collection.add
IngestionFailed(p) == task[p].pc = "s_set" /\ task[p].processed = <<>>
\* the step leaves the last sync of document d as it was
LastSyncKept(d) ==
    IF lastSyncKey(d) \in DOMAIN cache'
    THEN lastSyncKey(d) \in DOMAIN cache /\ cache'[lastSyncKey(d)] = cache[lastSyncKey(d)]
    ELSE TRUE
\* checkForUpdates of p looks at a document that has no chunk in the
\* collection and that no updateDocument is working on
LooksAtMissing(p) ==
    /\ task[p].op = "poll"
    /\ task[p].pc = "c_get"
    /\ collectionGet(store, Head(task[p].files).id) = {}
    /\ \A q \in Procs : ~(task[q].pc \in UpdatePcs /\ task[q].docId = Head(task[p].files).id)
\* C21: a failed re-ingestion does not advance the document's file:lastsync,
\* and a later checkForUpdates that reads the last sync of a document whose
\* chunks are missing calls updateDocument for it again
FailedIngestionIsRetried ==
    [][\A p \in Procs :
          /\ (IngestionFailed(p) /\ task'[p].pc # "s_set") => LastSyncKept(task[p].docId)
          /\ (LooksAtMissing(p) /\ task'[p].pc # "c_get" /\ task'[p].ret # "caught")
                => task'[p].pc = "u_fetch"]_vars

(***************************************************************************)
(* The claim about the summary of a scan of a platform used by minors      *)
(***************************************************************************)
\* the report scanPlatform returned lists a violation of this type
Reports(type) ==
    /\ ScanDone
    /\ evOut.result # <<>>
    /\ \E i \in DOMAIN evOut.result[1].violations : evOut.result[1].violations[i].type = type
\* C22: a report that lists a minor_data_processing violation says in its
\* summary that minors are affected
MinorProcessingAffectsMinors ==
    Reports("minor_data_processing") => evOut.result[1].summary.affectsMinors
====
